---------------------------- MODULE Spec2Model ----------------------------
(***************************************************************************)
(* Model of the vida-go agent service: the token-bounded conversation      *)
(* memory (app/agent/context/memory_store.py), the streaming aggregator    *)
(* (app/agent/service/agent_service.py) and the chat request handlers      *)
(* (app/api/agent.py).                                                     *)
(*                                                                         *)
(* Text is a sequence of one-character strings; a message is a Python dict *)
(* modelled as a function from the keys it has to their values.            *)
(***************************************************************************)
EXTENDS Integers, Sequences, FiniteSets, TLC

VARIABLES
    redis_client,     \* MemoryStore.redis_client: TRUE = a client object, FALSE = None
    encoding,         \* MemoryStore.encoding: "none" (None) or "tiktoken"
    max_tokens,       \* MemoryStore.max_tokens
    system_prompt,    \* AgentService.system_prompt (a text, possibly empty)
    agent,            \* AgentService.agent: TRUE = a compiled graph, FALSE = None
    store,            \* Redis string keys: key -> raw value (NoValue = absent)
    index,            \* Redis set keys: key -> set of chat ids
    pc,               \* per request task: where the handler stands
    req,              \* per request task: user_id, chat_id, message of the request
    memory_messages,  \* per request task: the handler's local list memory_messages
    full_reply,       \* per request task: generate_response.full_reply
    full_output,      \* per request task: AgentService.stream.full_output
    events,           \* per request task: what the client has received so far
    hist,             \* history of the request tasks (what each read, saved, ...)
    log,              \* history of the direct MemoryStore calls
    tr_arg,           \* truncation harness: the list as it was passed
    tr_messages,      \* truncation harness: the caller's list object
    tr_result,        \* truncation harness: the returned list
    tr_pc,            \* truncation harness: "call" / "ret"
    st_messages,      \* stream harness: the caller's message list
    st_snaps,         \* stream harness: the assistant texts of the snapshots consumed
    st_full_output,   \* stream harness: AgentService.stream.full_output
    st_chunks,        \* stream harness: the chunks yielded so far
    st_last,          \* stream harness: what the last snapshot yielded
    st_pc             \* stream harness: "start" / "run" / "end" / "raised"

cfgvars   == <<redis_client, encoding, max_tokens, system_prompt, agent>>
redisvars == <<store, index>>
taskvars  == <<pc, req, memory_messages, full_reply, full_output, events, hist>>
trvars    == <<tr_arg, tr_messages, tr_result, tr_pc>>
stvars    == <<st_messages, st_snaps, st_full_output, st_chunks, st_last, st_pc>>
vars      == <<cfgvars, redisvars, taskvars, log, trvars, stvars>>

----------------------------------------------------------------------------
(* Bounds of the model *)

\* two scaled-down values of the max_tokens constructor argument
MaxTokensSmall == 8
MaxTokensLarge == 20
\* longest message list handed to the truncation harness
MaxMsgs == 3
\* snapshots consumed by one stream
MaxSnaps == 3
\* direct MemoryStore calls in one behaviour of the store harness
MaxCalls == 3
\* snapshots consumed by the stream of one request
MaxTaskSnaps == 2
\* Redis commands that fail in one behaviour
MaxFailures == 1

----------------------------------------------------------------------------
(* Python values *)

None == "None"

\* dict.get(key, default)
Get(d, k, default) == IF k \in DOMAIN d THEN d[k] ELSE default

\* a text of n copies of the character c
Rep(c, n) == [i \in 1..n |-> c]

Msg(r, c) == [role |-> r, content |-> c]

Roles == {"system", "user", "assistant"}

\* all sequences over S of length at most n
RECURSIVE SeqsUpTo(_, _)
SeqsUpTo(S, n) ==
    IF n = 0 THEN {<<>>}
    ELSE LET shorter == SeqsUpTo(S, n - 1)
         IN  shorter \cup {Append(s, x) : s \in {t \in shorter : Len(t) = n - 1}, x \in S}

IsPrefix(s, t) == Len(s) <= Len(t) /\ SubSeq(t, 1, Len(s)) = s

\* s[n:] of Python, n >= 0
Drop(s, n) == SubSeq(s, n + 1, Len(s))

\* t is a contiguous tail of s
IsSuffix(t, s) == Len(t) <= Len(s) /\ Drop(s, Len(s) - Len(t)) = t

----------------------------------------------------------------------------
(* MemoryStore: token accounting and truncation *)

\* stand-in for len(self.encoding.encode(text)) of the tiktoken library
EncodeLen(text) == (Len(text) + 2) \div 3

\* _count_tokens rounding up in the estimate: (len(text) + 3) // 4
_count_tokens_ceil(text) ==
    IF encoding = "none" THEN (Len(text) + 3) \div 4 ELSE EncodeLen(text)

_count_tokens(text) ==
    IF encoding = "none" THEN Len(text) \div 4 ELSE EncodeLen(text)

RECURSIVE _count_messages_tokens(_)
_count_messages_tokens(messages) ==
    IF messages = <<>> THEN 0
    ELSE LET msg == Head(messages)
             role_tokens == _count_tokens(Get(msg, "role", ""))
             content_tokens == _count_tokens(Get(msg, "content", <<>>))
         IN  role_tokens + content_tokens + 5 + _count_messages_tokens(Tail(messages))

\* PopLoop with `if` in place of `while`: one message is evicted at most
PopOnce(truncated) ==
    IF truncated # <<>> /\ _count_messages_tokens(truncated) > max_tokens
    THEN Tail(truncated)
    ELSE truncated

\* PopLoop with pop() in place of pop(0): the newest message is evicted
RECURSIVE PopLoopTail(_)
PopLoopTail(truncated) ==
    IF truncated # <<>> /\ _count_messages_tokens(truncated) > max_tokens
    THEN PopLoopTail(SubSeq(truncated, 1, Len(truncated) - 1))
    ELSE truncated

\* PopLoop evicting a whole turn (two messages) at a time
RECURSIVE PopLoopPairs(_)
PopLoopPairs(truncated) ==
    IF truncated # <<>> /\ _count_messages_tokens(truncated) > max_tokens
    THEN PopLoopPairs(IF Len(truncated) >= 2 THEN Tail(Tail(truncated)) ELSE <<>>)
    ELSE truncated

\* PopLoop stopping at the last message: `while len(truncated) > 1 and ...`
RECURSIVE PopLoopKeepLast(_)
PopLoopKeepLast(truncated) ==
    IF Len(truncated) > 1 /\ _count_messages_tokens(truncated) > max_tokens
    THEN PopLoopKeepLast(Tail(truncated))
    ELSE truncated

\* the while loop of _truncate_messages: truncated.pop(0) until within budget
RECURSIVE PopLoop(_)
PopLoop(truncated) ==
    IF truncated # <<>> /\ _count_messages_tokens(truncated) > max_tokens
    THEN PopLoop(Tail(truncated))
    ELSE truncated

\* _truncate_messages comparing with >= : a list weighing exactly max_tokens
\* loses its oldest messages
RECURSIVE PopLoopStrict(_)
PopLoopStrict(truncated) ==
    IF truncated # <<>> /\ _count_messages_tokens(truncated) >= max_tokens
    THEN PopLoopStrict(Tail(truncated))
    ELSE truncated
_truncate_messages_strict(messages) ==
    IF messages = <<>> THEN [returned |-> messages, messages |-> messages]
    ELSE IF _count_messages_tokens(messages) < max_tokens
         THEN [returned |-> messages, messages |-> messages]
    ELSE [returned |-> PopLoopStrict(messages), messages |-> messages]

\* _truncate_messages(messages): `returned` is the list it returns, `messages`
\* is the caller's list object after the call (the loop pops from a copy)
_truncate_messages(messages) ==
    IF messages = <<>> THEN [returned |-> messages, messages |-> messages]
    ELSE IF _count_messages_tokens(messages) <= max_tokens
         THEN [returned |-> messages, messages |-> messages]
    ELSE [returned |-> PopLoop(messages), messages |-> messages]

----------------------------------------------------------------------------
(* AgentService: message conversion and the streaming aggregator *)

\* LangChain message objects
SystemMessage(c) == [type |-> "system", content |-> c]
HumanMessage(c)  == [type |-> "human", content |-> c]
AIMessage(c)     == [type |-> "ai", content |-> c]
ToolMessage(c)   == [type |-> "tool", content |-> c]

RECURSIVE ConvertEach(_)
ConvertEach(messages) ==
    IF messages = <<>> THEN <<>>
    ELSE LET msg == Head(messages)
             role == Get(msg, "role", "")
             content == Get(msg, "content", <<>>)
             one == IF role = "system" THEN <<SystemMessage(content)>>
                    ELSE IF role = "user" THEN <<HumanMessage(content)>>
                    ELSE IF role = "assistant" THEN <<AIMessage(content)>>
                    ELSE <<>>
         IN  one \o ConvertEach(Tail(messages))

_convert_messages(messages) ==
    LET has_system_message ==
            \E i \in 1..Len(messages) : Get(messages[i], "role", None) = "system"
        injected == IF ~has_system_message /\ system_prompt # <<>>
                    THEN <<SystemMessage(system_prompt)>>
                    ELSE <<>>
    IN  injected \o ConvertEach(messages)

\* the fixed texts of AgentService, character for character in length (the
\* Chinese characters of the source are written as ASCII letters)
\* "sorry, the Agent service is unavailable, check the configuration." (21)
AgentUnavailableText ==
    <<"b","q",",","A","g","e","n","t","f","w","z","b","k","y",",",
      "q","j","c","p","z",".">>
\* "please enter your question." (8)
EmptyInputText == <<"q","s","r","n","d","w","t",".">>
\* "sorry, an error occurred during the conversation:" (13) followed by str(e)
ErrorText(e) ==
    <<"b","q",",","d","h","g","c","z","c","x","c","w",":">> \o e

\* a value the generator yields: a dict with "messages", or anything else
StateOf(messages_list) == [kind |-> "dict", messages |-> messages_list]
OtherState == [kind |-> "other"]

\* for msg in reversed(new_messages): the first AIMessage with content
LastAIIndex(new_messages) ==
    LET hits == {i \in 1..Len(new_messages) :
                    /\ new_messages[i].type = "ai"
                    /\ new_messages[i].content # <<>>}
    IN  IF hits = {} THEN 0 ELSE CHOOSE i \in hits : \A j \in hits : j <= i

\* StreamStep scanning the whole snapshot instead of messages_list[count:]
StreamStepFromStart(full, state, input_message_count) ==
    IF state.kind = "dict"
    THEN LET new_messages == state.messages
             i == LastAIIndex(new_messages)
         IN  IF i = 0 THEN [full_output |-> full, yielded |-> <<>>]
             ELSE LET current_content == new_messages[i].content
                  IN  IF Len(current_content) > Len(full)
                      THEN [full_output |-> current_content,
                            yielded |-> <<Drop(current_content, Len(full))>>]
                      ELSE [full_output |-> full, yielded |-> <<>>]
    ELSE [full_output |-> full, yielded |-> <<>>]

\* StreamStep comparing with != instead of > : any change of the text is
\* taken over
StreamStepAnyChange(full, state, input_message_count) ==
    IF state.kind = "dict"
    THEN LET new_messages == Drop(state.messages, input_message_count)
             i == LastAIIndex(new_messages)
         IN  IF i = 0 THEN [full_output |-> full, yielded |-> <<>>]
             ELSE LET current_content == new_messages[i].content
                  IN  IF Len(current_content) # Len(full)
                      THEN LET new_content == Drop(current_content, Len(full))
                           IN  [full_output |-> current_content,
                                yielded |-> IF new_content # <<>>
                                            THEN <<new_content>> ELSE <<>>]
                      ELSE [full_output |-> full, yielded |-> <<>>]
    ELSE [full_output |-> full, yielded |-> <<>>]

\* StreamStep yielding the whole current content instead of its new part
StreamStepWhole(full, state, input_message_count) ==
    IF state.kind = "dict"
    THEN LET new_messages == Drop(state.messages, input_message_count)
             i == LastAIIndex(new_messages)
         IN  IF i = 0 THEN [full_output |-> full, yielded |-> <<>>]
             ELSE IF Len(new_messages[i].content) > Len(full)
                  THEN [full_output |-> new_messages[i].content,
                        yielded |-> <<new_messages[i].content>>]
             ELSE [full_output |-> full, yielded |-> <<>>]
    ELSE [full_output |-> full, yielded |-> <<>>]

\* the body of the `async for state` loop of AgentService.stream for one state:
\* the new full_output and the chunks yielded (none or one)
StreamStep(full, state, input_message_count) ==
    IF state.kind = "dict"
    THEN LET messages_list == state.messages
             new_messages == Drop(messages_list, input_message_count)
             i == LastAIIndex(new_messages)
         IN  IF i = 0 THEN [full_output |-> full, yielded |-> <<>>]
             ELSE LET current_content == new_messages[i].content
                  IN  IF Len(current_content) > Len(full)
                      THEN LET new_content == Drop(current_content, Len(full))
                           IN  [full_output |-> current_content,
                                yielded |-> IF new_content # <<>>
                                            THEN <<new_content>> ELSE <<>>]
                      ELSE [full_output |-> full, yielded |-> <<>>]
    ELSE [full_output |-> full, yielded |-> <<>>]

\* AgentService.stream up to its loop: the chunks yielded at once when it
\* returns before the loop, and whether it enters the loop
StreamEnter(messages) ==
    IF ~agent THEN [yielded |-> <<AgentUnavailableText>>, loop |-> FALSE, count |-> 0]
    ELSE LET langchain_messages == _convert_messages(messages)
         IN  IF langchain_messages = <<>>
             THEN [yielded |-> <<EmptyInputText>>, loop |-> FALSE, count |-> 0]
             ELSE [yielded |-> <<>>, loop |-> TRUE,
                   count |-> Len(langchain_messages)]

\* the generator's state for assistant text `text` after input `messages`:
\* the converted input followed by what one agent run has added so far
SnapshotShapes == {"plain", "tool", "other"}
SnapshotState(messages, text, shape) ==
    LET input == _convert_messages(messages)
        reply == IF text = <<>> THEN <<>> ELSE <<AIMessage(text)>>
    IN  IF shape = "plain" THEN StateOf(input \o reply)
        ELSE IF shape = "tool"
             THEN StateOf(input \o <<AIMessage(<<>>), ToolMessage(<<"r">>)>> \o reply)
        ELSE IF text = <<>> THEN OtherState ELSE StateOf(input \o reply)

\* str.strip(): leading and trailing blanks removed
RECURSIVE LStrip(_)
LStrip(text) ==
    IF text # <<>> /\ Head(text) = " " THEN LStrip(Tail(text)) ELSE text
RECURSIVE RStrip(_)
RStrip(text) ==
    IF text # <<>> /\ text[Len(text)] = " "
    THEN RStrip(SubSeq(text, 1, Len(text) - 1))
    ELSE text
Strip(text) == RStrip(LStrip(text))

\* what the generator does with one call: it returns a final state or raises
Returns(state) == [kind |-> "result", state |-> state]
Raises(e) == [kind |-> "raise", e |-> e]

\* stand-in for str(result) of a result that holds no AIMessage
ReprText == <<"{", "}">>

\* for msg in reversed(messages_list): the first AIMessage
LastAIMessageIndex(messages_list) ==
    LET hits == {i \in 1..Len(messages_list) : messages_list[i].type = "ai"}
    IN  IF hits = {} THEN 0 ELSE CHOOSE i \in hits : \A j \in hits : j <= i

\* AgentService.ainvoke: the text it returns
ainvoke(messages, outcome) ==
    IF ~agent THEN AgentUnavailableText
    ELSE LET langchain_messages == _convert_messages(messages)
         IN  IF langchain_messages = <<>> THEN EmptyInputText
             ELSE IF outcome.kind = "raise" THEN ErrorText(outcome.e)
             ELSE IF outcome.state.kind = "dict"
                  THEN LET messages_list == outcome.state.messages
                           i == LastAIMessageIndex(messages_list)
                       IN  IF i = 0 THEN ReprText
                           ELSE Strip(messages_list[i].content)
             ELSE ReprText

RECURSIVE Concat(_)
Concat(chunks) == IF chunks = <<>> THEN <<>> ELSE Head(chunks) \o Concat(Tail(chunks))

----------------------------------------------------------------------------
(* Redis values and JSON *)

UserIds == {"1", "anonymous"}
ChatIds == {"c1", "c2"}

\* _get_key leaving the user out of the key
_get_key_chat_only(user_id, chat_id) == "agent:messages:" \o chat_id

_get_key(user_id, chat_id) == "agent:messages:" \o user_id \o ":" \o chat_id
_get_chat_list_key(user_id) == "agent:chat_list:" \o user_id

KeySpace == {_get_key(u, c) : u \in UserIds, c \in ChatIds}
IndexKeySpace == {_get_chat_list_key(u) : u \in UserIds}

\* redis GET of an absent key returns None
NoValue == [text |-> "nil"]

\* JSON values
JArr(items) == [kind |-> "arr", v |-> items]
JObj(members) == [kind |-> "obj", v |-> members]
JStr(text) == [kind |-> "str", v |-> text]
JNum(n) == [kind |-> "num", v |-> n]

\* a stored string: a JSON document, the empty string, or no JSON at all
JsonText(j) == [text |-> "json", doc |-> j]
EmptyString == [text |-> "empty"]
Garbage == [text |-> "garbage"]

\* json.dumps of a list of dicts of strings
DumpDict(d) == JObj([k \in DOMAIN d |-> JStr(d[k])])
json_dumps(messages) ==
    JsonText(JArr([i \in 1..Len(messages) |-> DumpDict(messages[i])]))

\* json.loads of a document: the Python value of a JSON value, two levels deep
LoadLeaf(j) == j.v
LoadMember(j) ==
    IF j.kind = "obj" THEN [k \in DOMAIN j.v |-> LoadLeaf(j.v[k])]
    ELSE IF j.kind = "arr" THEN [i \in 1..Len(j.v) |-> LoadLeaf(j.v[i])]
    ELSE LoadLeaf(j)
json_loads(j) ==
    IF j.kind = "arr" THEN [i \in 1..Len(j.v) |-> LoadMember(j.v[i])]
    ELSE IF j.kind = "obj" THEN [k \in DOMAIN j.v |-> LoadMember(j.v[k])]
    ELSE LoadLeaf(j)

----------------------------------------------------------------------------
(* MemoryStore operations.  `ok` says whether the Redis command the       *)
(* operation issues succeeds; a failing command raises inside the try.    *)

get_records(st, user_id, chat_id, ok) ==
    IF ~redis_client THEN <<>>
    ELSE IF ~ok THEN <<>>
    ELSE LET key == _get_key(user_id, chat_id)
             value == st[key]
         IN  IF value = NoValue \/ value = EmptyString THEN <<>>
             ELSE IF value = Garbage THEN <<>>
             ELSE IF value.doc.kind # "arr" THEN <<>>
             ELSE json_loads(value.doc)

\* the caller's list object after save_records(user_id, chat_id, messages)
save_records_messages(messages) ==
    IF ~redis_client THEN messages ELSE _truncate_messages(messages).messages

\* save_records building its key from the chat id alone: every user's log of
\* that chat is written
save_records_any_user(st, user_id, chat_id, messages, ok) ==
    IF ~redis_client THEN st
    ELSE LET value == json_dumps(_truncate_messages(messages).returned)
         IN  IF ok THEN [k \in DOMAIN st |->
                            IF \E u \in UserIds : k = _get_key(u, chat_id)
                            THEN value ELSE st[k]]
             ELSE st

\* save_records without the truncation
save_records_untruncated(st, user_id, chat_id, messages, ok) ==
    IF ~redis_client THEN st
    ELSE IF ok THEN [st EXCEPT ![_get_key(user_id, chat_id)] = json_dumps(messages)]
    ELSE st

\* save_records adding the new turn to the log stored by now instead of
\* overwriting it
save_records_merging(st, user_id, chat_id, messages, ok) ==
    IF ~redis_client THEN st
    ELSE LET stored == get_records(st, user_id, chat_id, TRUE)
             turn == IF Len(messages) >= 2
                     THEN SubSeq(messages, Len(messages) - 1, Len(messages))
                     ELSE messages
             value == json_dumps(_truncate_messages(stored \o turn).returned)
         IN  IF ok THEN [st EXCEPT ![_get_key(user_id, chat_id)] = value] ELSE st

\* the store after save_records
save_records(st, user_id, chat_id, messages, ok) ==
    IF ~redis_client THEN st
    ELSE LET truncated_messages == _truncate_messages(messages).returned
             value == json_dumps(truncated_messages)
             key == _get_key(user_id, chat_id)
         IN  IF ok THEN [st EXCEPT ![key] = value] ELSE st

\* the store after delete_records
delete_records(st, user_id, chat_id, ok) ==
    IF ~redis_client THEN st
    ELSE LET key == _get_key(user_id, chat_id)
         IN  IF ok THEN [st EXCEPT ![key] = NoValue] ELSE st

\* the index after add_chat_id
add_chat_id(idx, user_id, chat_id, ok) ==
    IF ~redis_client THEN idx
    ELSE LET key == _get_chat_list_key(user_id)
         IN  IF ok THEN [idx EXCEPT ![key] = @ \cup {chat_id}] ELSE idx

\* the order of chat ids under Python's string comparison
ChatRank(c) == IF c = "c1" THEN 1 ELSE 2

RECURSIVE SortedDesc(_)
SortedDesc(S) ==
    IF S = {} THEN <<>>
    ELSE LET top == CHOOSE x \in S : \A y \in S : ChatRank(y) <= ChatRank(x)
         IN  <<top>> \o SortedDesc(S \ {top})

\* get_chat_list with sort() in place of sort(reverse=True)
RECURSIVE SortedAsc(_)
SortedAsc(S) ==
    IF S = {} THEN <<>>
    ELSE LET low == CHOOSE x \in S : \A y \in S : ChatRank(x) <= ChatRank(y)
         IN  <<low>> \o SortedAsc(S \ {low})
get_chat_list_ascending(idx, user_id, ok) ==
    IF ~redis_client THEN <<>>
    ELSE IF ~ok THEN <<>>
    ELSE SortedAsc(idx[_get_chat_list_key(user_id)])

get_chat_list(idx, user_id, ok) ==
    IF ~redis_client THEN <<>>
    ELSE IF ~ok THEN <<>>
    ELSE LET key == _get_chat_list_key(user_id)
             chat_ids == idx[key]
         IN  SortedDesc(chat_ids)

\* delete_chat_id without the call of delete_records
delete_chat_id_keeping_log(st, idx, user_id, chat_id, ok_srem, ok_delete) ==
    IF ~redis_client THEN [store |-> st, index |-> idx]
    ELSE IF ok_srem
         THEN [store |-> st,
               index |-> [idx EXCEPT ![_get_chat_list_key(user_id)] = @ \ {chat_id}]]
    ELSE [store |-> st, index |-> idx]

\* store and index after delete_chat_id: SREM, then delete_records; a failing
\* SREM raises before delete_records is called
delete_chat_id(st, idx, user_id, chat_id, ok_srem, ok_delete) ==
    IF ~redis_client THEN [store |-> st, index |-> idx]
    ELSE LET key == _get_chat_list_key(user_id)
         IN  IF ok_srem
             THEN [store |-> delete_records(st, user_id, chat_id, ok_delete),
                   index |-> [idx EXCEPT ![key] = @ \ {chat_id}]]
             ELSE [store |-> st, index |-> idx]

\* get_chat_preview's result: None, the preview dict, or the AttributeError
\* of msg.get on an element that is no dict
PreviewLen == 50
\* the placeholder shown for a chat without preview text ("new chat", three
\* characters in the source)
PreviewPlaceholder == <<"#", "n", "c">>
NoPreview == [kind |-> "none"]
PreviewRaise == [kind |-> "raise"]
PreviewDict(chat_id, preview, message_count) ==
    [kind |-> "dict", chat_id |-> chat_id, preview |-> preview,
     message_count |-> message_count]

\* text[:n] of Python
Take(text, n) == SubSeq(text, 1, IF Len(text) < n THEN Len(text) ELSE n)

\* the elements of the list get_records returned that are dicts: get_records
\* returns a non-empty list only as the value of a stored JSON array
DictIndexes(st, user_id, chat_id, messages) ==
    {i \in 1..Len(messages) : st[_get_key(user_id, chat_id)].doc.v[i].kind = "obj"}

\* get_chat_preview taking the last user message (the loop without its break)
get_chat_preview_last_user(st, user_id, chat_id, ok) ==
    LET messages == get_records(st, user_id, chat_id, ok)
    IN  IF messages = <<>> THEN NoPreview
        ELSE LET users == {i \in 1..Len(messages) :
                              Get(messages[i], "role", None) = "user"}
                 preview == IF users = {} THEN <<>>
                            ELSE Take(Get(messages[CHOOSE i \in users :
                                                       \A j \in users : j <= i],
                                          "content", <<>>), PreviewLen)
             IN  PreviewDict(chat_id,
                             IF preview # <<>> THEN preview ELSE PreviewPlaceholder,
                             Len(messages))

get_chat_preview(st, user_id, chat_id, ok) ==
    LET messages == get_records(st, user_id, chat_id, ok)
    IN  IF messages = <<>> THEN NoPreview
        ELSE LET dicts == DictIndexes(st, user_id, chat_id, messages)
                 users == {i \in dicts : Get(messages[i], "role", None) = "user"}
                 \* the loop runs up to the first user message, or to the end
                 stop == IF users = {} THEN Len(messages)
                         ELSE CHOOSE i \in users : \A j \in users : i <= j
             IN  IF \E i \in 1..stop : i \notin dicts THEN PreviewRaise
                 ELSE LET preview == IF users = {} THEN <<>>
                                     ELSE Take(Get(messages[stop], "content", <<>>),
                                               PreviewLen)
                      IN  PreviewDict(chat_id,
                                      IF preview # <<>> THEN preview
                                      ELSE PreviewPlaceholder,
                                      Len(messages))

\* is_available probing the backend anew: false once a command has failed
is_available_probing == redis_client /\ log.fails = 0

is_available == redis_client

----------------------------------------------------------------------------
(* core/auth.py: the user id of a request *)

\* an Authorization header: absent, or a scheme prefix and a token; a token
\* has a number of dot-separated parts and a payload part that base64- and
\* JSON-decodes to a Python value or does not decode
NoAuthorization == [header |-> "absent"]
Authorization(prefix, parts, payload) ==
    [header |-> "present", prefix |-> prefix, parts |-> parts, payload |-> payload]
Undecodable == [decodes |-> FALSE]
Payload(value) == [decodes |-> TRUE, value |-> value]
PyDict(d) == [py |-> "dict", v |-> d]
PyInt(n) == [py |-> "int", v |-> n]
PyStr(t) == [py |-> "str", text |-> t]
PyList(l) == [py |-> "list", items |-> l]

PyNone == [py |-> "none"]

\* bool(value) of Python
Truthy(value) ==
    IF value.py = "none" THEN FALSE
    ELSE IF value.py = "dict" THEN DOMAIN value.v # {}
    ELSE IF value.py = "int" THEN value.v # 0
    ELSE IF value.py = "str" THEN value.text # ""
    ELSE value.items # <<>>

\* decode_jwt_payload: the payload value, or None
decode_jwt_payload(token) ==
    IF token.parts # 3 THEN PyNone
    ELSE IF ~token.payload.decodes THEN PyNone
    ELSE token.payload.value

DecimalStrings == [n \in 0..2 |-> CASE n = 0 -> "0" [] n = 1 -> "1" [] n = 2 -> "2"]

\* int(user_id): the integer, or None when int() raises ValueError/TypeError
IntOf(user_id) ==
    IF user_id.py = "int" THEN user_id
    ELSE IF user_id.py = "str"
         THEN IF \E n \in DOMAIN DecimalStrings : DecimalStrings[n] = user_id.text
              THEN PyInt(CHOOSE n \in DOMAIN DecimalStrings :
                            DecimalStrings[n] = user_id.text)
              ELSE PyNone
    ELSE PyNone

\* get_user_id_from_token: [raised |-> TRUE] when payload.get raises
\* AttributeError (a payload that is no dict), else the returned value
get_user_id_from_token(authorization) ==
    IF authorization.header = "absent" THEN [raised |-> FALSE, value |-> PyNone]
    ELSE IF authorization.prefix # "Bearer " THEN [raised |-> FALSE, value |-> PyNone]
    ELSE LET payload == decode_jwt_payload(authorization)
         IN  IF ~Truthy(payload) THEN [raised |-> FALSE, value |-> PyNone]
             ELSE IF payload.py # "dict" THEN [raised |-> TRUE]
             ELSE IF "user_id" \notin DOMAIN payload.v
                  THEN [raised |-> FALSE, value |-> PyNone]
             ELSE IF payload.v["user_id"].py = "none"
                  THEN [raised |-> FALSE, value |-> PyNone]
             ELSE [raised |-> FALSE, value |-> IntOf(payload.v["user_id"])]

get_user_id_str(authorization) ==
    LET user_id == get_user_id_from_token(authorization)
    IN  IF user_id.raised THEN [raised |-> TRUE]
        ELSE IF user_id.value.py = "none"
             THEN [raised |-> FALSE, value |-> "anonymous"]
        ELSE [raised |-> FALSE, value |-> DecimalStrings[user_id.value.v]]

BearerFor(n) == Authorization("Bearer ", 3, Payload(PyDict([user_id |-> PyInt(n)])))

----------------------------------------------------------------------------
(* Idle values: every specification below runs one part of the program    *)
(* and leaves the variables of the other parts at these values.           *)

Procs == {1, 2}

NoRequest == [kind |-> "none"]

\* what is remembered of one request: the history it read and which tasks had
\* written their turn by then, whether its save_records was reached and wrote
\* the key and which tasks had written by then, whether its SADD succeeded,
\* how many snapshots it consumed, whether the generator raised
NoHist == [read |-> <<>>, seen |-> {}, saved |-> FALSE, wrote |-> FALSE,
           after |-> {}, added |-> FALSE, nsnaps |-> 0, raised |-> FALSE]

IdleRedis ==
    /\ store = [k \in KeySpace |-> NoValue]
    /\ index = [k \in IndexKeySpace |-> {}]

IdleTasks ==
    /\ pc = [p \in Procs |-> "idle"]
    /\ req = [p \in Procs |-> NoRequest]
    /\ memory_messages = [p \in Procs |-> <<>>]
    /\ full_reply = [p \in Procs |-> <<>>]
    /\ full_output = [p \in Procs |-> <<>>]
    /\ events = [p \in Procs |-> <<>>]
    /\ hist = [p \in Procs |-> NoHist]

NoCall == [op |-> "none"]

IdleLog == log = [n |-> 0, last |-> NoCall, fails |-> 0,
                  expected |-> [u \in UserIds |-> {}]]

IdleTr ==
    /\ tr_arg = <<>>
    /\ tr_messages = <<>>
    /\ tr_result = <<>>
    /\ tr_pc = "idle"

IdleSt ==
    /\ st_messages = <<>>
    /\ st_snaps = <<>>
    /\ st_full_output = <<>>
    /\ st_chunks = <<>>
    /\ st_last = <<>>
    /\ st_pc = "idle"

Prompt == <<"p">>

----------------------------------------------------------------------------
(* SpecTrunc: _truncate_messages applied to every bounded message list *)

TruncContents == {Rep("a", 1), Rep("b", 4), Rep("c", 9)}
\* messages with role and content, and messages that lack one of them
TruncMsgs ==
    {Msg(r, c) : r \in Roles, c \in TruncContents}
        \cup {[role |-> "user"], [content |-> Rep("b", 4)]}

InitTrunc ==
    /\ redis_client = TRUE
    /\ encoding \in {"none", "tiktoken"}
    /\ max_tokens \in {MaxTokensSmall, MaxTokensLarge}
    /\ system_prompt = Prompt
    /\ agent = TRUE
    /\ IdleRedis /\ IdleTasks /\ IdleLog /\ IdleSt
    /\ tr_arg \in SeqsUpTo(TruncMsgs, MaxMsgs)
    /\ tr_messages = tr_arg
    /\ tr_result = <<>>
    /\ tr_pc = "call"

TruncateCall ==
    /\ tr_pc = "call"
    /\ LET r == _truncate_messages(tr_messages)
       IN  /\ tr_result' = r.returned
           /\ tr_messages' = r.messages
    /\ tr_pc' = "ret"
    /\ UNCHANGED <<tr_arg, cfgvars, redisvars, taskvars, log, stvars>>

NextTrunc == TruncateCall

SpecTrunc == InitTrunc /\ [][NextTrunc]_vars

----------------------------------------------------------------------------
(* SpecStream: AgentService.stream driven by every bounded snapshot sequence *)

StreamTexts ==
    {<<>>, <<"a">>, <<"a", "b">>, <<"a", "b", "c">>, <<"x", "y">>,
     <<"x", "y", "z", "w">>}

Exceptions == {<<"e">>}

StreamInputs ==
    {<<>>,
     <<Msg("user", <<"q">>)>>,
     <<Msg("user", <<"q">>), Msg("assistant", <<"o", "l", "d", "e", "r">>),
       Msg("user", <<"q">>)>>,
     <<Msg("tool", <<"t">>), Msg("user", <<"q">>)>>,
     <<Msg("tool", <<"t">>), Msg("assistant", <<"o", "l", "d", "e", "r">>),
       Msg("user", <<"q">>)>>}

InitStream ==
    /\ redis_client = TRUE
    /\ encoding = "none"
    /\ max_tokens = MaxTokensLarge
    /\ system_prompt \in {<<>>, Prompt}
    /\ agent \in BOOLEAN
    /\ IdleRedis /\ IdleTasks /\ IdleLog /\ IdleTr
    /\ st_messages \in StreamInputs
    /\ st_snaps = <<>>
    /\ st_full_output = <<>>
    /\ st_chunks = <<>>
    /\ st_last = <<>>
    /\ st_pc = "start"

\* the call up to the loop
HStreamStart ==
    /\ st_pc = "start"
    /\ LET e == StreamEnter(st_messages)
       IN  /\ st_chunks' = e.yielded
           /\ st_last' = e.yielded
           /\ st_pc' = IF e.loop THEN "run" ELSE "end"
    /\ UNCHANGED <<st_messages, st_snaps, st_full_output>>
    /\ UNCHANGED <<cfgvars, redisvars, taskvars, log, trvars>>

\* the generator yields one more state
HStreamSnapshot ==
    /\ st_pc = "run"
    /\ Len(st_snaps) < MaxSnaps
    /\ \E text \in StreamTexts, shape \in SnapshotShapes :
          LET state == SnapshotState(st_messages, text, shape)
              r == StreamStep(st_full_output, state, StreamEnter(st_messages).count)
          IN  /\ st_snaps' = Append(st_snaps, text)
              /\ st_full_output' = r.full_output
              /\ st_chunks' = st_chunks \o r.yielded
              /\ st_last' = r.yielded
    /\ UNCHANGED <<st_messages, st_pc>>
    /\ UNCHANGED <<cfgvars, redisvars, taskvars, log, trvars>>

\* the generator is exhausted
HStreamExhaust ==
    /\ st_pc = "run"
    /\ st_pc' = "end"
    /\ st_last' = <<>>
    /\ UNCHANGED <<st_messages, st_snaps, st_full_output, st_chunks>>
    /\ UNCHANGED <<cfgvars, redisvars, taskvars, log, trvars>>

\* the generator raises: the outer except yields the error text and the
\* stream ends
HStreamRaise ==
    /\ st_pc = "run"
    /\ \E e \in Exceptions :
          /\ st_chunks' = Append(st_chunks, ErrorText(e))
          /\ st_last' = <<ErrorText(e)>>
    /\ st_pc' = "raised"
    /\ UNCHANGED <<st_messages, st_snaps, st_full_output>>
    /\ UNCHANGED <<cfgvars, redisvars, taskvars, log, trvars>>

NextStream == HStreamStart \/ HStreamSnapshot \/ HStreamExhaust \/ HStreamRaise

SpecStream == InitStream /\ [][NextStream]_vars

----------------------------------------------------------------------------
(* SpecStore: the MemoryStore operations called in any order, each Redis  *)
(* command succeeding or failing.  `log` keeps the last call, whether any *)
(* command has failed, and per user the ids added and not deleted since.  *)

U1 == Msg("user", <<"h", "i">>)
A1 == Msg("assistant", <<"y", "o">>)
U2 == Msg("user", <<"m", "o", "r", "e">>)
A9 == Msg("assistant", Rep("z", 9))

StoreMsgLists == {<<>>, <<U1>>, <<U1, A1>>, <<U1, A1, U2, A9>>, <<A9>>}

\* a command is issued, and so can fail, only when there is a client
Failures(ok) == IF ok THEN 0 ELSE 1
Outcomes == IF redis_client /\ log.fails < MaxFailures THEN BOOLEAN ELSE {TRUE}
OutcomePairs ==
    {o \in Outcomes \X Outcomes :
        log.fails + Failures(o[1]) + Failures(o[2]) <= MaxFailures}

InitStore ==
    /\ redis_client \in BOOLEAN
    /\ encoding \in {"none", "tiktoken"}
    /\ max_tokens \in {MaxTokensSmall, MaxTokensLarge}
    /\ system_prompt = Prompt
    /\ agent = TRUE
    /\ IdleRedis /\ IdleTasks /\ IdleLog /\ IdleTr /\ IdleSt

Logged(call, ok, expected) ==
    [n |-> log.n + 1, last |-> call, fails |-> log.fails + Failures(ok),
     expected |-> expected]

SGetRecords ==
    /\ log.n < MaxCalls
    /\ \E u \in UserIds, c \in ChatIds, ok \in Outcomes :
          log' = Logged([op |-> "get_records", user_id |-> u, chat_id |-> c,
                         ok |-> ok, result |-> get_records(store, u, c, ok)],
                        ok, log.expected)
    /\ UNCHANGED <<cfgvars, redisvars, taskvars, trvars, stvars>>

SSaveRecords ==
    /\ log.n < MaxCalls
    /\ \E u \in UserIds, c \in ChatIds, m \in StoreMsgLists, ok \in Outcomes :
          /\ store' = save_records(store, u, c, m, ok)
          /\ log' = Logged([op |-> "save_records", user_id |-> u, chat_id |-> c,
                            ok |-> ok, messages |-> m,
                            after |-> save_records_messages(m)], ok, log.expected)
    /\ UNCHANGED <<cfgvars, index, taskvars, trvars, stvars>>

SDeleteRecords ==
    /\ log.n < MaxCalls
    /\ \E u \in UserIds, c \in ChatIds, ok \in Outcomes :
          /\ store' = delete_records(store, u, c, ok)
          /\ log' = Logged([op |-> "delete_records", user_id |-> u, chat_id |-> c,
                            ok |-> ok], ok, log.expected)
    /\ UNCHANGED <<cfgvars, index, taskvars, trvars, stvars>>

SAddChatId ==
    /\ log.n < MaxCalls
    /\ \E u \in UserIds, c \in ChatIds, ok \in Outcomes :
          /\ index' = add_chat_id(index, u, c, ok)
          /\ log' = Logged([op |-> "add_chat_id", user_id |-> u, chat_id |-> c,
                            ok |-> ok], ok,
                           [log.expected EXCEPT ![u] = @ \cup {c}])
    /\ UNCHANGED <<cfgvars, store, taskvars, trvars, stvars>>

SGetChatList ==
    /\ log.n < MaxCalls
    /\ \E u \in UserIds, ok \in Outcomes :
          log' = Logged([op |-> "get_chat_list", user_id |-> u, ok |-> ok,
                         result |-> get_chat_list(index, u, ok)],
                        ok, log.expected)
    /\ UNCHANGED <<cfgvars, redisvars, taskvars, trvars, stvars>>

SDeleteChatId ==
    /\ log.n < MaxCalls
    /\ \E u \in UserIds, c \in ChatIds, o \in OutcomePairs :
          \* delete_records is not reached when SREM fails
          /\ o[1] \/ o[2]
          /\ LET ok_srem == o[1]
                 ok_delete == o[2]
                 r == delete_chat_id(store, index, u, c, ok_srem, ok_delete)
             IN  /\ store' = r.store
                 /\ index' = r.index
          /\ log' = Logged([op |-> "delete_chat_id", user_id |-> u, chat_id |-> c,
                            ok |-> o[1] /\ o[2]], o[1] /\ o[2],
                           [log.expected EXCEPT ![u] = @ \ {c}])
    /\ UNCHANGED <<cfgvars, taskvars, trvars, stvars>>

NextStore ==
    \/ SGetRecords \/ SSaveRecords \/ SDeleteRecords
    \/ SAddChatId \/ SGetChatList \/ SDeleteChatId

SpecStore == InitStore /\ [][NextStore]_vars

----------------------------------------------------------------------------
(* SpecRaw: get_records reading whatever a Redis key may hold *)

RawValues ==
    {NoValue, EmptyString, Garbage,
     JsonText(JNum(1)), JsonText(JStr(<<"s">>)),
     JsonText(JObj([role |-> JStr("user"), content |-> JStr(<<"h">>)])),
     JsonText(JArr(<<>>)),
     JsonText(JArr(<<JNum(1)>>)),
     JsonText(JArr(<<JStr(<<"s">>)>>)),
     JsonText(JArr(<<JObj([name |-> JStr(<<"n">>)])>>)),
     json_dumps(<<U1>>), json_dumps(<<A1, U1>>), json_dumps(<<U1, A1, U2>>)}

InitRaw ==
    /\ redis_client \in BOOLEAN
    /\ encoding = "none"
    /\ max_tokens = MaxTokensLarge
    /\ system_prompt = Prompt
    /\ agent = TRUE
    /\ \E k \in KeySpace, raw \in RawValues :
          store = [j \in KeySpace |-> IF j = k THEN raw ELSE NoValue]
    /\ index = [k \in IndexKeySpace |-> {}]
    /\ IdleTasks /\ IdleLog /\ IdleTr /\ IdleSt

NextRaw == SGetRecords

SpecRaw == InitRaw /\ [][NextRaw]_vars

----------------------------------------------------------------------------
(* SpecPreview: get_chat_preview of the logs save_records has stored *)

UEmpty == Msg("user", <<>>)
U50 == Msg("user", Rep("k", PreviewLen))
U51 == Msg("user", Rep("k", PreviewLen) \o <<"m">>)

PreviewLogs ==
    {<<>>, <<A1>>, <<U1>>, <<A1, U1>>, <<U1, A1, U2>>, <<UEmpty>>, <<UEmpty, A1, U1>>,
     <<[role |-> "user"], A1>>, <<U50>>, <<U51>>}

InitPreview ==
    /\ redis_client \in BOOLEAN
    /\ encoding = "none"
    /\ max_tokens = MaxTokensLarge
    /\ system_prompt = Prompt
    /\ agent = TRUE
    /\ IdleRedis /\ IdleTasks /\ IdleLog /\ IdleTr /\ IdleSt

PSaveRecords ==
    /\ log.n < MaxCalls
    /\ \E u \in UserIds, c \in ChatIds, m \in PreviewLogs, ok \in Outcomes :
          /\ store' = save_records(store, u, c, m, ok)
          /\ log' = Logged([op |-> "save_records", user_id |-> u, chat_id |-> c,
                            ok |-> ok, messages |-> m], ok, log.expected)
    /\ UNCHANGED <<cfgvars, index, taskvars, trvars, stvars>>

PGetChatPreview ==
    /\ log.n < MaxCalls
    /\ \E u \in UserIds, c \in ChatIds, ok \in Outcomes :
          log' = Logged([op |-> "get_chat_preview", user_id |-> u, chat_id |-> c,
                         ok |-> ok, result |-> get_chat_preview(store, u, c, ok)],
                        ok, log.expected)
    /\ UNCHANGED <<cfgvars, redisvars, taskvars, trvars, stvars>>

NextPreview == PSaveRecords \/ PGetChatPreview

SpecPreview == InitPreview /\ [][NextPreview]_vars

----------------------------------------------------------------------------
(* SpecAuth: get_user_id_str applied to every kind of Authorization header *)

Prefixes == {"Bearer ", "bearer ", "Basic "}
PartCounts == {1, 2, 3, 4}

\* what the payload part of a token decodes to
PayloadKinds ==
    {"undecodable", "null", "zero", "number", "empty string", "string",
     "empty list", "list", "empty object", "object without user_id",
     "user_id null", "user_id 0", "user_id 1", "user_id \"2\"", "user_id \"x\"",
     "user_id list"}
PayloadOf(kind) ==
    CASE kind = "undecodable" -> Undecodable
      [] kind = "null" -> Payload(PyNone)
      [] kind = "zero" -> Payload(PyInt(0))
      [] kind = "number" -> Payload(PyInt(5))
      [] kind = "empty string" -> Payload(PyStr(""))
      [] kind = "string" -> Payload(PyStr("s"))
      [] kind = "empty list" -> Payload(PyList(<<>>))
      [] kind = "list" -> Payload(PyList(<<1>>))
      [] kind = "empty object" -> Payload(PyDict(<<>>))
      [] kind = "object without user_id" -> Payload(PyDict([sub |-> PyStr("s")]))
      [] kind = "user_id null" -> Payload(PyDict([user_id |-> PyNone]))
      [] kind = "user_id 0" -> Payload(PyDict([user_id |-> PyInt(0)]))
      [] kind = "user_id 1" -> Payload(PyDict([user_id |-> PyInt(1)]))
      [] kind = "user_id \"2\"" -> Payload(PyDict([user_id |-> PyStr("2")]))
      [] kind = "user_id \"x\"" -> Payload(PyDict([user_id |-> PyStr("x")]))
      [] kind = "user_id list" -> Payload(PyDict([user_id |-> PyList(<<1>>)]))

InitAuth ==
    /\ redis_client = TRUE
    /\ encoding = "none"
    /\ max_tokens = MaxTokensLarge
    /\ system_prompt = Prompt
    /\ agent = TRUE
    /\ IdleRedis /\ IdleTasks /\ IdleLog /\ IdleTr /\ IdleSt

AGetUserIdStr ==
    /\ log.n < MaxCalls
    /\ \/ log' = Logged([op |-> "get_user_id_str", header |-> "absent",
                         result |-> get_user_id_str(NoAuthorization)],
                        TRUE, log.expected)
       \/ \E prefix \in Prefixes, parts \in PartCounts, kind \in PayloadKinds :
             log' = Logged([op |-> "get_user_id_str", header |-> "present",
                            prefix |-> prefix, parts |-> parts, payload |-> kind,
                            result |-> get_user_id_str(
                                Authorization(prefix, parts, PayloadOf(kind)))],
                           TRUE, log.expected)
    /\ UNCHANGED <<cfgvars, redisvars, taskvars, trvars, stvars>>

NextAuth == AGetUserIdStr

SpecAuth == InitAuth /\ [][NextAuth]_vars

----------------------------------------------------------------------------
(* SpecKeys: the MemoryStore operations on the keys of every user id       *)
(* get_user_id_str returns and of chat ids that themselves hold the        *)
(* separator of the key format.                                            *)

\* calls in one behaviour of this harness
MaxKeyCalls == 2

\* the user ids get_user_id_str returns for the credentials of SpecAuth
KeyUserIds ==
    LET results == {get_user_id_str(Authorization("Bearer ", 3, PayloadOf(kind))) :
                       kind \in PayloadKinds}
    IN  {r.value : r \in {x \in results : ~x.raised}}

\* request.chat_id is any non-empty string of the client
KeyChatIds == {"c1", "1:c1", "c1:1"}

InitKeys ==
    /\ redis_client = TRUE
    /\ encoding = "none"
    /\ max_tokens = MaxTokensLarge
    /\ system_prompt = Prompt
    /\ agent = TRUE
    /\ store = [k \in {_get_key(u, c) : u \in KeyUserIds, c \in KeyChatIds} |-> NoValue]
    /\ index = [k \in {_get_chat_list_key(u) : u \in KeyUserIds} |-> {}]
    /\ IdleTasks /\ IdleLog /\ IdleTr /\ IdleSt

KeyCall(op, u, c) ==
    [log EXCEPT !.n = @ + 1, !.last = [op |-> op, user_id |-> u, chat_id |-> c]]

KGetRecords ==
    /\ log.n < MaxKeyCalls
    /\ \E u \in KeyUserIds, c \in KeyChatIds :
          log' = [KeyCall("get_records", u, c) EXCEPT
                     !.last = [op |-> "get_records", user_id |-> u, chat_id |-> c,
                               result |-> get_records(store, u, c, TRUE)]]
    /\ UNCHANGED <<cfgvars, redisvars, taskvars, trvars, stvars>>

KSaveRecords ==
    /\ log.n < MaxKeyCalls
    /\ \E u \in KeyUserIds, c \in KeyChatIds, m \in {<<U1>>, <<U1, A1>>} :
          /\ store' = save_records(store, u, c, m, TRUE)
          /\ log' = KeyCall("save_records", u, c)
    /\ UNCHANGED <<cfgvars, index, taskvars, trvars, stvars>>

KDeleteRecords ==
    /\ log.n < MaxKeyCalls
    /\ \E u \in KeyUserIds, c \in KeyChatIds :
          /\ store' = delete_records(store, u, c, TRUE)
          /\ log' = KeyCall("delete_records", u, c)
    /\ UNCHANGED <<cfgvars, index, taskvars, trvars, stvars>>

KAddChatId ==
    /\ log.n < MaxKeyCalls
    /\ \E u \in KeyUserIds, c \in KeyChatIds :
          /\ index' = add_chat_id(index, u, c, TRUE)
          /\ log' = KeyCall("add_chat_id", u, c)
    /\ UNCHANGED <<cfgvars, store, taskvars, trvars, stvars>>

KDeleteChatId ==
    /\ log.n < MaxKeyCalls
    /\ \E u \in KeyUserIds, c \in KeyChatIds :
          /\ LET r == delete_chat_id(store, index, u, c, TRUE, TRUE)
             IN  /\ store' = r.store
                 /\ index' = r.index
          /\ log' = KeyCall("delete_chat_id", u, c)
    /\ UNCHANGED <<cfgvars, taskvars, trvars, stvars>>

NextKeys ==
    \/ KGetRecords \/ KSaveRecords \/ KDeleteRecords \/ KAddChatId \/ KDeleteChatId

SpecKeys == InitKeys /\ [][NextKeys]_vars

----------------------------------------------------------------------------
(* Spec: the chat request handlers of app/api/agent.py.  Each task serves *)
(* one request; a handler runs without interruption between the points    *)
(* where it awaits the generator or hands an event to the transport.      *)

\* task 1 asks as user "1" about chat "c1"; the other tasks as any user about
\* any chat
\* a Bearer token whose payload decodes to a JSON list
BearerOfList == Authorization("Bearer ", 3, Payload(PyList(<<1>>)))
Authorizations(p) ==
    IF p = 1 THEN {BearerFor(1)} ELSE {NoAuthorization, BearerFor(1), BearerOfList}
ReqChatIds(p) == IF p = 1 THEN {"c1", ""} ELSE ChatIds \cup {""}
\* request.message: blank, or a text that tells the tasks apart
UserText(p) == IF p = 1 THEN <<"h", "i">> ELSE <<"g", "o", " ">>
ReqMessages(p) == {<<" ">>, UserText(p)}
TaskTexts == {<<"a", "b">>, <<"x", "y", "z">>}

ChatResponse(code, message, ai_reply, chat_id) ==
    [code |-> code, message |-> message, ai_reply |-> ai_reply, chat_id |-> chat_id]
HTTPException(status_code) == [code |-> status_code, message |-> "HTTPException"]
\* one server-sent event: data: {code, message, data}
Event(code, message, data) == [code |-> code, message |-> message, data |-> data]
NoData == [none |-> TRUE]

Writers == {q \in Procs : hist[q].wrote}

InitSpec ==
    /\ redis_client \in BOOLEAN
    /\ encoding = "none"
    /\ max_tokens = MaxTokensLarge
    /\ system_prompt = Prompt
    /\ agent \in BOOLEAN
    /\ IdleRedis /\ IdleTasks /\ IdleLog /\ IdleTr /\ IdleSt

\* the checks both chat handlers make before they touch the store: the
\* response that ends the request, or [go |-> TRUE] with the user id
Admit(message, chat_id, authorization) ==
    IF Strip(message) = <<>> THEN [go |-> FALSE, code |-> 400, message |-> "empty message"]
    ELSE IF chat_id = "" THEN [go |-> FALSE, code |-> 400, message |-> "empty chat_id"]
    ELSE LET user_id == get_user_id_str(authorization)
         IN  IF user_id.raised
             THEN [go |-> FALSE, code |-> 500, message |-> "HTTPException"]
             ELSE IF ~agent
                  THEN [go |-> FALSE, code |-> 503, message |-> "agent unavailable"]
             ELSE [go |-> TRUE, user_id |-> user_id.value]

\* invoke_chat up to `await agent_service.ainvoke`
InvokeBegin(p) ==
    /\ pc[p] = "idle"
    /\ \A q \in Procs : q < p => pc[q] # "idle"
    /\ \E message \in ReqMessages(p), chat_id \in ReqChatIds(p),
          authorization \in Authorizations(p), ok \in Outcomes :
          LET a == Admit(message, chat_id, authorization)
          IN  IF ~a.go
              THEN /\ ok
                   /\ events' = [events EXCEPT ![p] =
                          <<IF a.code = 500 THEN HTTPException(500)
                            ELSE ChatResponse(a.code, a.message, NoData, NoData)>>]
                   /\ req' = [req EXCEPT ![p] =
                          [kind |-> "invoke", rejected |-> TRUE,
                           chat_id |-> chat_id, message |-> Strip(message)]]
                   /\ pc' = [pc EXCEPT ![p] = "done"]
                   /\ UNCHANGED <<memory_messages, hist, log>>
              ELSE LET records == get_records(store, a.user_id, chat_id, ok)
                   IN  /\ memory_messages' = [memory_messages EXCEPT ![p] =
                              Append(records, Msg("user", Strip(message)))]
                       /\ req' = [req EXCEPT ![p] =
                              [kind |-> "invoke", rejected |-> FALSE,
                               user_id |-> a.user_id, chat_id |-> chat_id,
                               message |-> Strip(message)]]
                       /\ hist' = [hist EXCEPT ![p].read = records,
                                               ![p].seen = Writers]
                       /\ log' = [log EXCEPT !.fails = @ + Failures(ok)]
                       /\ pc' = [pc EXCEPT ![p] = "invoke_wait"]
                       /\ UNCHANGED events
    /\ UNCHANGED <<full_reply, full_output>>
    /\ UNCHANGED <<cfgvars, redisvars, trvars, stvars>>

\* Persist saving the new turn alone instead of the whole list
Persist_new_turn(p, messages, ok_save, ok_add, raised) ==
    /\ store' = save_records(store, req[p].user_id, req[p].chat_id,
                             SubSeq(messages, Len(messages) - 1, Len(messages)),
                             ok_save)
    /\ index' = add_chat_id(index, req[p].user_id, req[p].chat_id, ok_add)
    /\ hist' = [hist EXCEPT ![p].saved = TRUE,
                            ![p].wrote = redis_client /\ ok_save,
                            ![p].after = Writers \ {p},
                            ![p].added = redis_client /\ ok_add,
                            ![p].raised = raised]
    /\ log' = [log EXCEPT !.fails = @ + Failures(ok_save) + Failures(ok_add)]

\* the two writes that end a turn: save_records, then add_chat_id
Persist(p, messages, ok_save, ok_add, raised) ==
    /\ store' = save_records(store, req[p].user_id, req[p].chat_id, messages, ok_save)
    /\ index' = add_chat_id(index, req[p].user_id, req[p].chat_id, ok_add)
    /\ hist' = [hist EXCEPT ![p].saved = TRUE,
                            ![p].wrote = redis_client /\ ok_save,
                            ![p].after = Writers \ {p},
                            ![p].added = redis_client /\ ok_add,
                            ![p].raised = raised]
    /\ log' = [log EXCEPT !.fails = @ + Failures(ok_save) + Failures(ok_add)]

\* invoke_chat from the return of ainvoke to the response
InvokeFinish(p) ==
    /\ pc[p] = "invoke_wait"
    /\ \E outcome \in {Returns(SnapshotState(memory_messages[p], t, "plain")) :
                          t \in TaskTexts}
                      \cup {Raises(e) : e \in Exceptions},
          o \in OutcomePairs :
          LET ok_save == o[1]
              ok_add == o[2]
              ai_reply == ainvoke(memory_messages[p], outcome)
              messages == Append(memory_messages[p], Msg("assistant", ai_reply))
          IN  /\ memory_messages' = [memory_messages EXCEPT ![p] = messages]
              /\ Persist(p, messages, ok_save, ok_add, outcome.kind = "raise")
              /\ events' = [events EXCEPT ![p] =
                     <<ChatResponse(200, "success", ai_reply, req[p].chat_id)>>]
    /\ pc' = [pc EXCEPT ![p] = "done"]
    /\ UNCHANGED <<req, full_reply, full_output>>
    /\ UNCHANGED <<cfgvars, trvars, stvars>>

\* stream_chat up to the return of the StreamingResponse
StreamBegin(p) ==
    /\ pc[p] = "idle"
    /\ \A q \in Procs : q < p => pc[q] # "idle"
    /\ \E message \in ReqMessages(p), chat_id \in ReqChatIds(p),
          authorization \in Authorizations(p), ok \in Outcomes :
          LET a == Admit(message, chat_id, authorization)
          IN  IF ~a.go
              THEN /\ ok
                   /\ events' = [events EXCEPT ![p] =
                          <<IF a.code = 500 THEN HTTPException(500)
                            ELSE Event(a.code, a.message, NoData)>>]
                   /\ req' = [req EXCEPT ![p] =
                          [kind |-> "stream", rejected |-> TRUE,
                           chat_id |-> chat_id, message |-> Strip(message)]]
                   /\ pc' = [pc EXCEPT ![p] = "done"]
                   /\ UNCHANGED <<memory_messages, hist, log>>
              ELSE LET records == get_records(store, a.user_id, chat_id, ok)
                   IN  /\ memory_messages' = [memory_messages EXCEPT ![p] =
                              Append(records, Msg("user", Strip(message)))]
                       /\ req' = [req EXCEPT ![p] =
                              [kind |-> "stream", rejected |-> FALSE,
                               user_id |-> a.user_id, chat_id |-> chat_id,
                               message |-> Strip(message)]]
                       /\ hist' = [hist EXCEPT ![p].read = records,
                                               ![p].seen = Writers]
                       /\ log' = [log EXCEPT !.fails = @ + Failures(ok)]
                       /\ pc' = [pc EXCEPT ![p] = "stream_open"]
                       /\ UNCHANGED events
    /\ UNCHANGED <<full_reply, full_output>>
    /\ UNCHANGED <<cfgvars, redisvars, trvars, stvars>>

\* the events generate_response hands over for the chunks of one step
StreamingEvents(chunks) ==
    [i \in 1..Len(chunks) |-> Event(200, "streaming", [content |-> chunks[i]])]

\* generate_response starts: full_reply = "", agent_service.stream is entered
StreamOpen(p) ==
    /\ pc[p] = "stream_open"
    /\ LET e == StreamEnter(memory_messages[p])
       IN  /\ full_reply' = [full_reply EXCEPT ![p] = Concat(e.yielded)]
           /\ events' = [events EXCEPT ![p] = @ \o StreamingEvents(e.yielded)]
           /\ pc' = [pc EXCEPT ![p] = IF e.loop THEN "streaming" ELSE "stream_tail"]
    /\ full_output' = [full_output EXCEPT ![p] = <<>>]
    /\ UNCHANGED <<req, memory_messages, hist, log>>
    /\ UNCHANGED <<cfgvars, redisvars, trvars, stvars>>

\* StreamSnapshot collecting the chunk in full_reply without handing an event
\* to the transport (the reply is buffered)
StreamSnapshot_buffering(p) ==
    /\ pc[p] = "streaming"
    /\ hist[p].nsnaps < MaxTaskSnaps
    /\ \E text \in TaskTexts \cup {<<>>}, shape \in {"plain", "tool"} :
          LET state == SnapshotState(memory_messages[p], text, shape)
              r == StreamStep(full_output[p], state,
                              StreamEnter(memory_messages[p]).count)
          IN  /\ full_output' = [full_output EXCEPT ![p] = r.full_output]
              /\ full_reply' = [full_reply EXCEPT ![p] = @ \o Concat(r.yielded)]
              /\ hist' = [hist EXCEPT ![p].nsnaps = @ + 1]
    /\ UNCHANGED <<pc, req, memory_messages, events, log>>
    /\ UNCHANGED <<cfgvars, redisvars, trvars, stvars>>

\* the generator yields one more state: the aggregator may yield a chunk,
\* which generate_response adds to full_reply and hands over as an event
StreamSnapshot(p) ==
    /\ pc[p] = "streaming"
    /\ hist[p].nsnaps < MaxTaskSnaps
    /\ \E text \in TaskTexts \cup {<<>>}, shape \in {"plain", "tool"} :
          LET state == SnapshotState(memory_messages[p], text, shape)
              r == StreamStep(full_output[p], state,
                              StreamEnter(memory_messages[p]).count)
          IN  /\ full_output' = [full_output EXCEPT ![p] = r.full_output]
              /\ full_reply' = [full_reply EXCEPT ![p] = @ \o Concat(r.yielded)]
              /\ events' = [events EXCEPT ![p] = @ \o StreamingEvents(r.yielded)]
              /\ hist' = [hist EXCEPT ![p].nsnaps = @ + 1]
    /\ UNCHANGED <<pc, req, memory_messages, log>>
    /\ UNCHANGED <<cfgvars, redisvars, trvars, stvars>>

\* the generator raises: the aggregator yields the error text as one more
\* chunk and returns
StreamRaise(p) ==
    /\ pc[p] = "streaming"
    /\ \E e \in Exceptions :
          /\ full_reply' = [full_reply EXCEPT ![p] = @ \o ErrorText(e)]
          /\ events' = [events EXCEPT ![p] = @ \o StreamingEvents(<<ErrorText(e)>>)]
    /\ hist' = [hist EXCEPT ![p].raised = TRUE]
    /\ pc' = [pc EXCEPT ![p] = "stream_tail"]
    /\ UNCHANGED <<req, memory_messages, full_output, log>>
    /\ UNCHANGED <<cfgvars, redisvars, trvars, stvars>>

\* StreamFinish handing over the "done" event before the turn is saved
StreamFinish_done_first(p) ==
    /\ pc[p] \in {"streaming", "stream_tail"}
    /\ events' = [events EXCEPT ![p] =
           Append(@, Event(200, "done", [chat_id |-> req[p].chat_id]))]
    /\ pc' = [pc EXCEPT ![p] = "stream_saving"]
    /\ UNCHANGED <<req, memory_messages, full_reply, full_output, hist, log>>
    /\ UNCHANGED <<cfgvars, redisvars, trvars, stvars>>

\* the aggregator is exhausted: generate_response appends the assistant
\* turn, saves, registers the chat id and hands over the "done" event
StreamFinish(p) ==
    /\ pc[p] \in {"streaming", "stream_tail"}
    /\ \E o \in OutcomePairs :
          LET messages == Append(memory_messages[p], Msg("assistant", full_reply[p]))
          IN  /\ memory_messages' = [memory_messages EXCEPT ![p] = messages]
              /\ Persist(p, messages, o[1], o[2], hist[p].raised)
    /\ events' = [events EXCEPT ![p] =
           Append(@, Event(200, "done", [chat_id |-> req[p].chat_id]))]
    /\ pc' = [pc EXCEPT ![p] = "done"]
    /\ UNCHANGED <<req, full_reply, full_output>>
    /\ UNCHANGED <<cfgvars, trvars, stvars>>

\* q is serving a request for the key of p's request
SameRequestKey(p, q) ==
    /\ req[q] # NoRequest /\ ~req[q].rejected
    /\ req[q].user_id = req[p].user_id /\ req[q].chat_id = req[p].chat_id

\* delete_chat: the whole handler, serving the one delete request of a
\* behaviour, for a conversation some chat request named
DeleteChat ==
    /\ log.last = NoCall
    /\ \E p \in Procs, o \in OutcomePairs :
          /\ req[p] # NoRequest /\ ~req[p].rejected
          /\ o[1] \/ o[2]
          /\ LET r == delete_chat_id(store, index, req[p].user_id, req[p].chat_id,
                                     o[1], o[2])
             IN  /\ store' = r.store
                 /\ index' = r.index
                 /\ log' = [log EXCEPT
                        !.n = @ + 1,
                        !.fails = @ + Failures(o[1]) + Failures(o[2]),
                        !.last = [op |-> "delete_chat", code |-> 200,
                                  user_id |-> req[p].user_id,
                                  chat_id |-> req[p].chat_id,
                                  ok |-> o[1] /\ o[2],
                                  inflight |-> {q \in Procs :
                                      /\ pc[q] \notin {"idle", "done"}
                                      /\ SameRequestKey(p, q)},
                                  idle |-> {q \in Procs : pc[q] = "idle"}]]
    /\ UNCHANGED <<cfgvars, taskvars, trvars, stvars>>

Next ==
    \/ \E p \in Procs : InvokeBegin(p)
    \/ \E p \in Procs : InvokeFinish(p)
    \/ \E p \in Procs : StreamBegin(p)
    \/ \E p \in Procs : StreamOpen(p)
    \/ \E p \in Procs : StreamSnapshot(p)
    \/ \E p \in Procs : StreamRaise(p)
    \/ \E p \in Procs : StreamFinish(p)
    \/ DeleteChat

Spec == InitSpec /\ [][Next]_vars

----------------------------------------------------------------------------
(* SpecDown: the chat handlers of a service whose agent failed to build,   *)
(* over a Redis that holds the conversations of an earlier run.  No        *)
(* request gets past Admit, so the handlers end in their first step.       *)

EarlierStores ==
    {[k \in KeySpace |-> NoValue],
     [k \in KeySpace |-> IF k = _get_key("1", "c1") THEN json_dumps(<<U1, A1>>)
                         ELSE NoValue],
     [k \in KeySpace |-> IF k = _get_key("anonymous", "c2")
                         THEN json_dumps(<<U1, A1, U2, A1>>)
                         ELSE NoValue]}

\* the index of an earlier run: the chats that have a log
IndexOf(st) ==
    [k \in IndexKeySpace |->
        {c \in ChatIds : \E u \in UserIds :
            k = _get_chat_list_key(u) /\ st[_get_key(u, c)] # NoValue}]

InitDown ==
    /\ redis_client \in BOOLEAN
    /\ encoding = "none"
    /\ max_tokens = MaxTokensLarge
    /\ system_prompt = Prompt
    /\ agent = FALSE
    /\ store \in EarlierStores
    /\ index = IndexOf(store)
    /\ IdleTasks /\ IdleLog /\ IdleTr /\ IdleSt

NextDown ==
    \/ \E p \in Procs : InvokeBegin(p)
    \/ \E p \in Procs : StreamBegin(p)

SpecDown == InitDown /\ [][NextDown]_vars

----------------------------------------------------------------------------
(* Properties *)

\* the message list a key holds (the keys written by save_records hold arrays)
StoredLog(user_id, chat_id) == json_loads(store[_get_key(user_id, chat_id)].doc)
HasLog(user_id, chat_id) == store[_get_key(user_id, chat_id)] # NoValue

\* C1 (SpecStore): after any sequence of save_records / delete_records /
\* delete_chat_id calls every stored log weighs at most max_tokens, unless it
\* is a single message that alone weighs more than max_tokens.
C1_StoredWithinBudget ==
    \A u \in UserIds, c \in ChatIds :
        HasLog(u, c) =>
            LET stored == StoredLog(u, c)
            IN  \/ _count_messages_tokens(stored) <= max_tokens
                \/ Len(stored) = 1 /\ _count_messages_tokens(stored) > max_tokens

\* an over-budget list was saved and part of it is stored
C1_Witness ==
    /\ log.last.op = "save_records" /\ redis_client /\ log.last.ok
    /\ _count_messages_tokens(log.last.messages) > max_tokens
    /\ Len(StoredLog(log.last.user_id, log.last.chat_id)) >= 1
    /\ Len(StoredLog(log.last.user_id, log.last.chat_id)) + 2 <= Len(log.last.messages)

\* C2 (SpecTrunc): _truncate_messages returns a contiguous tail of its input,
\* the survivors in their order and unchanged, and leaves the input list as
\* it was.
C2_ReturnsSuffix ==
    tr_pc = "ret" => /\ IsSuffix(tr_result, tr_arg)
                     /\ tr_messages = tr_arg

\* messages were evicted and messages survived
C2_Witness ==
    /\ tr_pc = "ret"
    /\ Len(tr_result) >= 1
    /\ Len(tr_result) + 2 <= Len(tr_arg)

\* each snapshot's assistant text extends the one before
PrefixChain(snaps) ==
    \A i \in 1..(Len(snaps) - 1) : IsPrefix(snaps[i], snaps[i + 1])

\* the last snapshot's assistant text is the one before (or empty, the first)
LastDidNotGrow(snaps) ==
    /\ snaps # <<>>
    /\ snaps[Len(snaps)] = IF Len(snaps) = 1 THEN <<>> ELSE snaps[Len(snaps) - 1]

\* C3 (SpecStream): for snapshots that each extend the one before, the chunks
\* yielded so far concatenate to the latest snapshot's text, every chunk is
\* non-empty, and a snapshot that does not grow yields nothing.
C3_DeltasRebuildSnapshot ==
    (/\ agent /\ st_pc \in {"run", "end"}
     /\ st_snaps # <<>> /\ PrefixChain(st_snaps))
    => /\ Concat(st_chunks) = st_snaps[Len(st_snaps)]
       /\ \A i \in 1..Len(st_chunks) : st_chunks[i] # <<>>
       /\ (st_pc = "run" /\ LastDidNotGrow(st_snaps)) => st_last = <<>>

\* a stream of three snapshots, one of them not growing, ended after two chunks
C3_Witness ==
    /\ agent /\ st_pc = "end" /\ PrefixChain(st_snaps)
    /\ Len(st_snaps) >= 3 /\ Len(st_chunks) = 2
    /\ st_snaps[2] = st_snaps[1]

Served(p) == req[p] # NoRequest /\ ~req[p].rejected
StreamDone(p) == pc[p] = "done" /\ Served(p) /\ req[p].kind = "stream"

\* C4 (Spec): when the snapshots end without error, the assistant turn the
\* streaming handler appends and persists is the aggregator's final
\* full_output, whatever the snapshot sequence.
C4_PersistsEmitted ==
    \A p \in Procs :
        (StreamDone(p) /\ ~hist[p].raised /\ hist[p].wrote) =>
            memory_messages[p][Len(memory_messages[p])].content = full_output[p]

IsErrorEvent(e) == e.code # 200
ErrorEvents(p) == {i \in 1..Len(events[p]) : IsErrorEvent(events[p][i])}

\* C5 (Spec): when the generator raises during a streaming request the client
\* receives exactly one error event, it is the last event, and no assistant
\* turn is written to the log for the request.
C5_ErrorEndsStreamUnsaved ==
    \A p \in Procs :
        (StreamDone(p) /\ hist[p].raised) =>
            /\ Cardinality(ErrorEvents(p)) = 1
            /\ IsErrorEvent(events[p][Len(events[p])])
            /\ ~hist[p].wrote

SameKey(p, q) == req[p].user_id = req[q].user_id /\ req[p].chat_id = req[q].chat_id

\* p and q both read before either wrote, both wrote, q last, nothing deleted
LostUpdate(p, q) ==
    /\ p # q /\ pc[p] = "done" /\ pc[q] = "done"
    /\ Served(p) /\ Served(q) /\ SameKey(p, q)
    /\ hist[p].seen = {} /\ hist[q].seen = {}
    /\ hist[p].read = hist[q].read
    /\ hist[p].wrote /\ hist[q].wrote /\ p \in hist[q].after
    /\ log.last = NoCall

\* C6 (Spec): when two requests on one key both read the history before
\* either saved, the stored log is the history with the turn of the request
\* that saved last, and the other request's user turn is not in it.
C6_LastWriteWins ==
    \A p, q \in Procs :
        LostUpdate(p, q) =>
            LET stored == StoredLog(req[q].user_id, req[q].chat_id)
            IN  /\ stored = _truncate_messages(memory_messages[q]).returned
                /\ memory_messages[q] =
                       hist[q].read \o SubSeq(memory_messages[q],
                                              Len(hist[q].read) + 1,
                                              Len(hist[q].read) + 2)
                /\ \A i \in 1..Len(stored) :
                       stored[i] # Msg("user", req[p].message)

\* two requests raced on one key and the one that saved first lost its turn
C6_Witness ==
    \E p, q \in Procs :
        /\ LostUpdate(p, q)
        /\ req[p].kind = "invoke" /\ req[q].kind = "stream"
        /\ Len(StoredLog(req[q].user_id, req[q].chat_id)) = 2

\* C7 (SpecStore): on a working backend save_records(u, c, M) followed at
\* once by get_records(u, c) returns _truncate_messages(M), for every M.
C7_SaveThenGet ==
    (redis_client /\ log.last.op = "save_records" /\ log.last.ok) =>
        get_records(store, log.last.user_id, log.last.chat_id, TRUE)
            = _truncate_messages(log.last.messages).returned

\* a non-empty list was saved that truncates to the empty list
C7_Witness ==
    /\ redis_client /\ log.last.op = "save_records" /\ log.last.ok
    /\ log.last.messages # <<>>
    /\ get_records(store, log.last.user_id, log.last.chat_id, TRUE) = <<>>

\* a stored value that is a JSON array of {role, content} records
WellFormedLog(value) ==
    /\ value.text = "json"
    /\ value.doc.kind = "arr"
    /\ \A i \in 1..Len(value.doc.v) :
          /\ value.doc.v[i].kind = "obj"
          /\ {"role", "content"} \subseteq DOMAIN value.doc.v[i].v

\* C8 (SpecRaw): get_records returns the empty list when the key is absent,
\* the backend is unavailable or the read fails, or the stored value is not
\* a well-formed message sequence; otherwise the stored messages in order.
C8_EmptyUnlessWellFormed ==
    log.last.op = "get_records" =>
        LET value == store[_get_key(log.last.user_id, log.last.chat_id)]
        IN  IF redis_client /\ log.last.ok /\ WellFormedLog(value)
            THEN log.last.result = json_loads(value.doc)
            ELSE log.last.result = <<>>

\* C9 (SpecStore): while no Redis command has failed, each user's index is
\* the set of ids added and not deleted since, and right after
\* delete_chat_id(u, c) the id is out of u's index and get_records(u, c)
\* returns the empty list.
C9_IndexIsAddedMinusDeleted ==
    (redis_client /\ log.fails = 0) =>
        /\ \A u \in UserIds : index[_get_chat_list_key(u)] = log.expected[u]
        /\ log.last.op = "delete_chat_id" =>
              /\ log.last.chat_id \notin index[_get_chat_list_key(log.last.user_id)]
              /\ get_records(store, log.last.user_id, log.last.chat_id, TRUE) = <<>>

\* an id was deleted while another id of the same user stays in the index
C9_Witness ==
    /\ redis_client /\ log.fails = 0
    /\ log.last.op = "delete_chat_id"
    /\ index[_get_chat_list_key(log.last.user_id)] # {}

\* C10 (Spec): a chat id is in a user's index only if some request wrote a
\* turn to the log of that (user, chat) key.
C10_IndexedOnlyIfPersisted ==
    \A u \in UserIds, c \in ChatIds :
        c \in index[_get_chat_list_key(u)] =>
            \E p \in Procs :
                /\ Served(p) /\ req[p].user_id = u /\ req[p].chat_id = c
                /\ hist[p].wrote

\* the log get_chat_preview read, and the first user message in it
PreviewRead ==
    get_records(store, log.last.user_id, log.last.chat_id, log.last.ok)
UserIndexes(messages) ==
    {i \in 1..Len(messages) : Get(messages[i], "role", None) = "user"}
FirstUserContent(messages) ==
    Get(messages[CHOOSE i \in UserIndexes(messages) :
                     \A j \in UserIndexes(messages) : i <= j], "content", <<>>)
FirstFifty(text) ==
    [i \in 1..(IF Len(text) < PreviewLen THEN Len(text) ELSE PreviewLen) |-> text[i]]

\* C11 as stated (SpecPreview): get_chat_preview returns nothing for an empty
\* log, the placeholder for a log without user message, and in every other
\* case the first 50 characters of the first user message, with the number of
\* messages in the log.
C11_PreviewIsFirstFifty ==
    log.last.op = "get_chat_preview" =>
        IF PreviewRead = <<>> THEN log.last.result = NoPreview
        ELSE /\ log.last.result.kind = "dict"
             /\ log.last.result.message_count = Len(PreviewRead)
             /\ log.last.result.preview =
                    IF UserIndexes(PreviewRead) = {} THEN PreviewPlaceholder
                    ELSE FirstFifty(FirstUserContent(PreviewRead))

\* C11 as amended (SpecPreview): get_chat_preview returns nothing for an empty
\* log; the placeholder when the log has no user message or its first user
\* message has no text; otherwise the first 50 characters of the first user
\* message; always with the chat id and the number of messages in the log.
C11_PreviewOrPlaceholder ==
    log.last.op = "get_chat_preview" =>
        IF PreviewRead = <<>> THEN log.last.result = NoPreview
        ELSE /\ log.last.result.kind = "dict"
             /\ log.last.result.chat_id = log.last.chat_id
             /\ log.last.result.message_count = Len(PreviewRead)
             /\ log.last.result.preview =
                    IF UserIndexes(PreviewRead) = {} THEN PreviewPlaceholder
                    ELSE IF FirstUserContent(PreviewRead) = <<>>
                         THEN PreviewPlaceholder
                    ELSE FirstFifty(FirstUserContent(PreviewRead))

\* the preview of a log whose first user message is longer than 50 characters
C11_Witness ==
    /\ log.last.op = "get_chat_preview"
    /\ PreviewRead # <<>> /\ UserIndexes(PreviewRead) # {}
    /\ Len(FirstUserContent(PreviewRead)) > PreviewLen
    /\ Len(log.last.result.preview) = PreviewLen

\* C12 (SpecTrunc): a message list whose total token weight is at most
\* max_tokens is returned by _truncate_messages unchanged: the same messages
\* in the same order with the same content.
C12_UnchangedWithinBudget ==
    (tr_pc = "ret" /\ _count_messages_tokens(tr_arg) <= max_tokens) =>
        /\ Len(tr_result) = Len(tr_arg)
        /\ \A i \in 1..Len(tr_arg) : tr_result[i] = tr_arg[i]

\* a list of several messages weighing exactly max_tokens was truncated
C12_Witness ==
    /\ tr_pc = "ret"
    /\ Len(tr_arg) >= 2
    /\ _count_messages_tokens(tr_arg) = max_tokens
    /\ tr_result = tr_arg

\* a request with a non-blank message and a chat id
ValidRequest(r) == r # NoRequest /\ r.message # <<>> /\ r.chat_id # ""

\* C13 (SpecDown): when the agent was not constructed, the step that serves
\* a valid invoke or stream request ends it with a single response of code
\* 503, without reading the history or calling the generator, and leaves
\* every conversation log and index as it was.
C13_UnavailableAnswers503 ==
    [][\A p \in Procs :
          (~agent /\ pc[p] = "idle" /\ pc'[p] # "idle" /\ ValidRequest(req'[p])) =>
              /\ pc'[p] = "done"
              /\ Len(events'[p]) = 1
              /\ events'[p][1].code = 503
              /\ hist'[p] = NoHist /\ memory_messages'[p] = <<>>
              /\ store' = store /\ index' = index]_vars

InvokeDone(p) == pc[p] = "done" /\ Served(p) /\ req[p].kind = "invoke"

\* C14 (Spec): when the generator raises during an invoke request, the
\* response is an error response and the request has written neither the
\* log nor the index of its key.
C14_InvokeFailureUnsaved ==
    \A p \in Procs :
        (InvokeDone(p) /\ hist[p].raised) =>
            /\ IsErrorEvent(events[p][1])
            /\ ~hist[p].wrote
            /\ ~hist[p].added

\* the events of a streaming response
IsStreamingEvent(e) ==
    /\ e.code = 200 /\ e.message = "streaming"
    /\ DOMAIN e.data = {"content"} /\ e.data.content # <<>>
IsDoneEvent(e, chat_id) ==
    e.code = 200 /\ e.message = "done" /\ e.data = [chat_id |-> chat_id]
StreamingResponse(p) ==
    /\ req[p] # NoRequest /\ req[p].kind = "stream"
    /\ events[p] # <<HTTPException(500)>>

\* C15 (Spec): the events of a streaming response are "streaming" events,
\* each with one chunk as {content}, then one terminal event, "done" with the
\* chat id or an error event; nothing follows the terminal event, and "done"
\* is sent only after save_records and add_chat_id have run for the turn.
C15_StreamEventShape ==
    \A p \in Procs :
        StreamingResponse(p) =>
            LET n == Len(events[p])
                IsTerminal(e) == IsDoneEvent(e, req[p].chat_id) \/ IsErrorEvent(e)
            IN  /\ \A i \in 1..(n - 1) : IsStreamingEvent(events[p][i])
                /\ pc[p] = "done" => (n >= 1 /\ IsTerminal(events[p][n]))
                /\ pc[p] # "done" => \A i \in 1..n : IsStreamingEvent(events[p][i])
                /\ \A i \in 1..n :
                      IsDoneEvent(events[p][i], req[p].chat_id) => hist[p].saved

\* a stream of two chunks ended by "done", and a stream ended by an error event
C15_Witness ==
    \E p, q \in Procs :
        /\ StreamingResponse(p) /\ pc[p] = "done" /\ Len(events[p]) = 3
        /\ IsDoneEvent(events[p][3], req[p].chat_id)
        /\ StreamingResponse(q) /\ pc[q] = "done" /\ IsErrorEvent(events[q][1])

\* the chunks the loop of AgentService.stream has yielded (the fixed text of
\* a stream that returns before the loop and the error text of the outer
\* except are not among them)
LoopChunks ==
    IF ~StreamEnter(st_messages).loop THEN <<>>
    ELSE IF st_pc = "raised" THEN SubSeq(st_chunks, 1, Len(st_chunks) - 1)
    ELSE st_chunks

HistoryHasAssistant ==
    \E i \in 1..Len(st_messages) : st_messages[i].role = "assistant"

\* C16 (SpecStream): every chunk the loop yields is the tail of the text of
\* an assistant message some snapshot added behind the converted input;
\* assistant turns of the caller's history are never emitted, with or without
\* an injected system prompt and with or without dropped history entries.
C16_OnlyNewAssistantText ==
    (agent /\ st_pc \in {"run", "end", "raised"}) =>
        \A i \in 1..Len(LoopChunks) :
            \E j \in 1..Len(st_snaps) :
                st_snaps[j] # <<>> /\ IsSuffix(LoopChunks[i], st_snaps[j])

\* a history with a dropped entry and an assistant turn behind an injected
\* system prompt, a first snapshot without new assistant text, and a chunk
\* yielded later
C16_Witness ==
    /\ agent /\ st_pc = "end"
    /\ HistoryHasAssistant /\ system_prompt # <<>>
    /\ Len(ConvertEach(st_messages)) < Len(st_messages)
    /\ Len(st_snaps) >= 2 /\ st_snaps[1] = <<>>
    /\ Len(st_chunks) >= 1

\* C17 (SpecStore): a call of save_records(u, c, M) changes no stored value
\* but that of the key of (u, c), changes no index, leaves the caller's list
\* M as it was, and changes nothing at all when there is no Redis client.
C17_SaveRecordsFrame ==
    [][(log'.n = log.n + 1 /\ log'.last.op = "save_records") =>
          /\ \A k \in KeySpace :
                k # _get_key(log'.last.user_id, log'.last.chat_id) =>
                    store'[k] = store[k]
          /\ index' = index
          /\ log'.last.after = log'.last.messages
          /\ ~redis_client => store' = store]_vars

\* a list was saved truncated while another key holds a log and an index
\* holds an id
C17_Witness ==
    /\ redis_client /\ log.last.op = "save_records" /\ log.last.ok
    /\ Len(StoredLog(log.last.user_id, log.last.chat_id)) < Len(log.last.messages)
    /\ \E k \in KeySpace :
          k # _get_key(log.last.user_id, log.last.chat_id) /\ store[k] # NoValue
    /\ \E k \in IndexKeySpace : index[k] # {}

\* the user id a well-formed credential carries
CarriedUserId(call) ==
    IF call.header = "present" /\ call.prefix = "Bearer " /\ call.parts = 3
    THEN CASE call.payload = "user_id 0" -> "0"
           [] call.payload = "user_id 1" -> "1"
           [] call.payload = "user_id \"2\"" -> "2"
           [] OTHER -> "anonymous"
    ELSE "anonymous"

\* C18 (SpecAuth): for every credential get_user_id_str does not raise; it
\* returns the decimal user id when the credential carries one and
\* "anonymous" for every other credential.
C18_NeverRaises ==
    log.last.op = "get_user_id_str" =>
        /\ ~log.last.result.raised
        /\ log.last.result.value = CarriedUserId(log.last)

\* C19 (SpecStore): get_chat_list(u) returns every id of u's index exactly
\* once, ids in descending order, and the empty list when there is no Redis
\* client or the read fails.
C19_ChatListSortedDesc ==
    log.last.op = "get_chat_list" =>
        LET result == log.last.result
            ids == index[_get_chat_list_key(log.last.user_id)]
        IN  IF redis_client /\ log.last.ok
            THEN /\ {result[i] : i \in 1..Len(result)} = ids
                 /\ Len(result) = Cardinality(ids)
                 /\ \A i, j \in 1..Len(result) :
                       i < j => ChatRank(result[i]) > ChatRank(result[j])
            ELSE result = <<>>

\* the list of a user with two chats was read
C19_Witness ==
    /\ log.last.op = "get_chat_list" /\ redis_client /\ log.last.ok
    /\ Len(log.last.result) = 2

\* C20 (SpecStore): no operation of the store, and no failure or recovery of
\* the backend, changes what is_available returns: it stays what the probe
\* of the constructor made it.
C20_AvailabilityFixed ==
    [][is_available' = is_available]_vars

\* a command failed, a later command succeeded, and is_available is still true
C20_Witness ==
    /\ is_available
    /\ log.fails >= 1
    /\ log.last # NoCall /\ log.last.ok

\* the chunks the client has received in "streaming" events
DeliveredChunks(p) ==
    [i \in 1..Len(events[p]) |-> events[p][i].data.content]

\* C21 (Spec): whenever a streaming request is about to ask the generator
\* for its next snapshot, every delta the aggregator has produced from the
\* snapshots consumed so far has been handed to the transport as an event.
C21_DeltaBeforeNextSnapshot ==
    \A p \in Procs :
        pc[p] = "streaming" =>
            /\ Concat(DeliveredChunks(p)) = full_reply[p]
            /\ Len(full_reply[p]) = Len(full_output[p])
            /\ Len(events[p]) <= hist[p].nsnaps

\* the first delta is with the client while the generator has not finished
C21_Witness ==
    \E p \in Procs :
        /\ pc[p] = "streaming"
        /\ hist[p].nsnaps = 1
        /\ Len(events[p]) = 1
        /\ events[p][1].data.content # <<>>

\* the newest message of a list weighs more than max_tokens by itself
LastOverBudget(messages) ==
    /\ messages # <<>>
    /\ _count_messages_tokens(<<messages[Len(messages)]>>) > max_tokens

\* C22 (SpecTrunc): when the last message of a list weighs more than
\* max_tokens by itself, _truncate_messages returns the empty list, whatever
\* precedes that message.
C22_OversizeLastEmptiesLog ==
    (tr_pc = "ret" /\ LastOverBudget(tr_arg)) => tr_result = <<>>

\* a message that fits the budget was dropped with the oversize last one
C22_Witness ==
    /\ tr_pc = "ret" /\ LastOverBudget(tr_arg)
    /\ Len(tr_arg) = 2
    /\ _count_messages_tokens(<<tr_arg[1]>>) <= max_tokens
    /\ tr_result = <<>>

\* the reply the client of a finished request has received
DeliveredReply(p) ==
    IF req[p].kind = "invoke" THEN events[p][1].ai_reply
    ELSE Concat([i \in 1..(Len(events[p]) - 1) |-> events[p][i].data.content])

\* p has finished and written on a backend without failure, nothing was
\* deleted, and every other request that wrote p's key had written it before
\* p read it
RanAlone(p) ==
    /\ pc[p] = "done" /\ Served(p) /\ hist[p].wrote
    /\ req[p].kind = "stream" => ~hist[p].raised
    /\ redis_client /\ log.fails = 0 /\ log.last = NoCall
    /\ \A q \in Procs \ {p} :
          (Served(q) /\ SameKey(p, q) /\ hist[q].wrote) => q \in hist[p].seen

\* C23 (Spec): a chat request that ran with no other request interleaved on
\* its key leaves the stored log equal to _truncate_messages of the log it
\* read followed by its user turn and its assistant turn, in this order.
C23_SequentialRequestAppends ==
    \A p \in Procs :
        RanAlone(p) =>
            StoredLog(req[p].user_id, req[p].chat_id) =
                _truncate_messages(
                    hist[p].read \o <<Msg("user", req[p].message),
                                      Msg("assistant", DeliveredReply(p))>>).returned

\* the second of two requests on one key has finished after the first and the
\* log holds the end of both turns
C23_Witness ==
    \E p, q \in Procs :
        /\ p # q /\ RanAlone(p) /\ Served(q) /\ SameKey(p, q) /\ q \in hist[p].seen
        /\ Len(hist[p].read) = 2
        /\ Len(StoredLog(req[p].user_id, req[p].chat_id)) >= 3

\* the weight the claim gives: per message floor(len(role) / 4) +
\* floor(len(content) / 4) + 5, an absent role or content counting as empty
FieldLen(msg, k) == IF k \in DOMAIN msg THEN Len(msg[k]) ELSE 0
RECURSIVE FallbackWeightUpTo(_, _)
FallbackWeightUpTo(messages, n) ==
    IF n = 0 THEN 0
    ELSE FallbackWeightUpTo(messages, n - 1)
         + (FieldLen(messages[n], "role") \div 4)
         + (FieldLen(messages[n], "content") \div 4) + 5

\* C24 (SpecTrunc): without tokenizer the weight _count_messages_tokens
\* gives a list is the sum of floor(len(role)/4) + floor(len(content)/4) + 5
\* over its messages; every message weighs at least 5 and no suffix of the
\* list weighs more than the list.
C24_FallbackWeight ==
    encoding = "none" =>
        /\ _count_messages_tokens(tr_arg) = FallbackWeightUpTo(tr_arg, Len(tr_arg))
        /\ \A i \in 1..Len(tr_arg) : _count_messages_tokens(<<tr_arg[i]>>) >= 5
        /\ \A n \in 0..Len(tr_arg) :
              _count_messages_tokens(Drop(tr_arg, n)) <= _count_messages_tokens(tr_arg)

\* a list with a message without content and one without role was weighed
\* and truncated
C24_Witness ==
    /\ encoding = "none" /\ tr_pc = "ret"
    /\ Len(tr_arg) = 3
    /\ \E i \in 1..3 : "content" \notin DOMAIN tr_arg[i]
    /\ \E i \in 1..3 : "role" \notin DOMAIN tr_arg[i]
    /\ \E i \in 1..3 : _count_messages_tokens(<<tr_arg[i]>>) = 9
    /\ Len(tr_result) < 3

\* C25 (SpecStream): for every snapshot sequence, consuming a snapshot never
\* shortens full_output, leaves the chunks yielded so far as long in total as
\* full_output, and yields nothing (and does not raise) when the snapshot's
\* assistant text is not longer than full_output.
C25_AggregatorInvariants ==
    [][(st_pc = "run" /\ Len(st_snaps') = Len(st_snaps) + 1) =>
          /\ st_pc' = "run"
          /\ Len(st_full_output') >= Len(st_full_output)
          /\ Len(Concat(st_chunks')) = Len(st_full_output')
          /\ Len(st_snaps'[Len(st_snaps')]) <= Len(st_full_output) =>
                /\ st_chunks' = st_chunks
                /\ st_full_output' = st_full_output]_vars

\* a shorter, different assistant text followed a longer one and a longer one
\* followed that
C25_Witness ==
    /\ agent /\ st_pc = "run" /\ Len(st_snaps) = 3
    /\ Len(st_snaps[2]) < Len(st_snaps[1])
    /\ ~IsPrefix(st_snaps[2], st_snaps[1])
    /\ Len(st_snaps[3]) > Len(st_snaps[1])
    /\ Len(st_chunks) = 2

\* C26 (SpecTrunc): the list _truncate_messages returns is the longest
\* suffix of its input that weighs at most max_tokens.
C26_LongestFittingSuffix ==
    tr_pc = "ret" =>
        /\ IsSuffix(tr_result, tr_arg)
        /\ _count_messages_tokens(tr_result) <= max_tokens
        /\ \A n \in 0..Len(tr_arg) :
              _count_messages_tokens(Drop(tr_arg, n)) <= max_tokens =>
                  Len(tr_arg) - n <= Len(tr_result)

\* one message of three was evicted and two were kept
C26_Witness ==
    /\ tr_pc = "ret"
    /\ Len(tr_arg) = 3 /\ Len(tr_result) = 2

\* C27 (SpecKeys): different (user_id, chat_id) pairs have different log
\* keys and different users different index keys, and an operation called
\* for (u, c) leaves the log every other pair reads and the index of every
\* other user as they were.
C27_KeysIsolated ==
    [][/\ \A u1, u2 \in KeyUserIds, c1, c2 \in KeyChatIds :
             /\ _get_key(u1, c1) = _get_key(u2, c2) => (u1 = u2 /\ c1 = c2)
             /\ _get_chat_list_key(u1) = _get_chat_list_key(u2) => u1 = u2
       /\ log'.n = log.n + 1 =>
             /\ \A u \in KeyUserIds, c \in KeyChatIds :
                   (u # log'.last.user_id \/ c # log'.last.chat_id) =>
                       get_records(store', u, c, TRUE) = get_records(store, u, c, TRUE)
             /\ \A u \in KeyUserIds :
                   u # log'.last.user_id =>
                       index'[_get_chat_list_key(u)] = index[_get_chat_list_key(u)]]_vars

\* a log was saved for one user while another user has a log under a chat id
\* that holds the first user's id
C27_Witness ==
    /\ log.n = 2 /\ log.last.op = "save_records"
    /\ log.last.user_id = "anonymous" /\ log.last.chat_id = "1:c1"
    /\ get_records(store, "1", "c1", TRUE) # <<>>
    /\ get_records(store, "anonymous", "1:c1", TRUE) # <<>>

\* a delete_chat request has succeeded while chat requests for its key were
\* in flight, these have finished, and no request that began after the
\* delete has written the key or the index
DeletedInFlight ==
    /\ redis_client /\ log.last.op = "delete_chat" /\ log.last.ok
    /\ log.last.inflight # {}
    /\ \A p \in log.last.inflight : pc[p] = "done"
    /\ \A q \in log.last.idle : ~hist[q].wrote /\ ~hist[q].added

\* C28 (Spec): a conversation deleted while a chat request for its key was
\* in flight is still deleted when that request has finished: the key has
\* no log and the chat id is not in the user's index.
C28_DeletedStaysDeleted ==
    DeletedInFlight =>
        /\ ~HasLog(log.last.user_id, log.last.chat_id)
        /\ log.last.chat_id \notin index[_get_chat_list_key(log.last.user_id)]

=============================================================================
